---------------------------- MODULE Spec2Model ----------------------------
(***************************************************************************)
(* Timetable search (scheduler.py: Scheduler.generate) and the routing     *)
(* graphs it and the route finder use (route_optimizer.py:                 *)
(* RouteOptimizer.create_graph / shortest_path, graph_util.py:             *)
(* build_graph / shortest_path / GraphUtil.find_shortest_path).            *)
(*                                                                         *)
(* Two specifications share the variables:                                 *)
(*   GraphSpec  a graph is built from a location list, then queried;       *)
(*   Spec       Scheduler.generate runs its trials cell by cell.           *)
(***************************************************************************)
EXTENDS Integers, Sequences, FiniteSets, TLC

VARIABLES
    locations,            \* the location records handed to the graph builder
    builder,              \* which constructor built `graph`
    graph,                \* self.graph
    room_assignments,     \* calc_total_move's argument: a room per period and day
    teacher_assignments,  \* calc_total_move's argument: a teacher dict per period and day
    teacher_home_rooms,   \* self.teacher_home_rooms
    is_running,           \* DeliveryOptimizationSystem.is_running
    is_paused,            \* DeliveryOptimizationSystem.is_paused
    timer_active,         \* optimization_timer.isActive()
    current_cycle,        \* DeliveryOptimizationSystem.current_cycle
    calls,                \* the methods of the system called so far (observer)
    files,                \* the data directory: content and modification time per file
    cache,                \* DataManager.cache
    last_modified,        \* DataManager.last_modified
    last_stored,          \* per path, the value last written into the cache (observer)
    result,               \* the last DataManager call and what it returned
    query,                \* the last shortest-path call: method, start, end
    outcome,              \* what that call did: a returned value or a raised error
    school_data,          \* Scheduler.school_data: the requirement rows
    trials,               \* the argument of generate
    pc,                   \* position of generate
    trial,                \* number of trials completed
    timetables,           \* the trial's timetables
    class_subject_slots,  \* the trial's remaining slot pool per class
    class_subject_count,  \* the trial's remaining hours per class and subject
    cell,                 \* day index, period index and class index of the fill loop
    used_teachers,        \* teachers placed in the current (day, period)
    total_move,           \* the trial's cost
    best_timetables,      \* best timetable so far
    best_total_move,      \* its cost
    history,              \* per completed trial: its timetable and cost (observer)
    choices,              \* what random.choice returned, call by call (observer)
    replay,               \* the choices a repeated call is made to draw
    earlier,              \* what the call before this one returned
    built,                \* number of timetable dicts built so far: the trial's is the last
    best_built            \* which of them best_timetables refers to (0: None)

move_vars == <<room_assignments, teacher_assignments, teacher_home_rooms>>
system_vars == <<is_running, is_paused, timer_active, current_cycle, calls>>
cache_vars == <<files, cache, last_modified, last_stored, result>>
graph_vars == <<locations, builder, graph, query, outcome, move_vars, system_vars, cache_vars>>
sched_vars == <<school_data, trials, pc, trial, timetables, class_subject_slots,
                class_subject_count, cell, used_teachers, total_move,
                best_timetables, best_total_move, history>>
call_vars == <<choices, replay, earlier>>
dict_vars == <<built, best_built>>
vars == <<graph_vars, sched_vars, call_vars, dict_vars>>

----------------------------------------------------------------------------
(* Bounds of the inputs *)

MaxLocs == 3
MaxFloor == 2
MaxRows == 2
MaxTrials == 2
MaxPeriods == 2

----------------------------------------------------------------------------
(* Arithmetic helpers *)

Abs(n) == IF n < 0 THEN -n ELSE n

\* x ** 0.5 on the perfect squares the floor plan below produces
Sqrt(n) == CHOOSE r \in 0..n : r * r = n

Max(S) == CHOOSE m \in S : \A n \in S : n <= m

RECURSIVE SumSeq(_)
SumSeq(s) == IF s = <<>> THEN 0 ELSE Head(s) + SumSeq(Tail(s))

----------------------------------------------------------------------------
(* Locations *)

RoomNames == <<"r1", "r2", "r3", "r4", "r5">>
Buildings == {"A", "B", "C"}
Floors == 0..MaxFloor

\* Plan positions of the rooms: a 3 x 4 rectangle, so that every distance
\* between two rooms is an integer (0, 3, 4 or 5).
PlanXY == << <<0, 0>>, <<3, 0>>, <<0, 4>>, <<3, 4>> >>

RoomXY(i) == PlanXY[((i - 1) % 4) + 1]

LocationAt(i, b, f, e) ==
    [room_number |-> RoomNames[i], building |-> b, floor |-> f,
     x_coord |-> RoomXY(i)[1], y_coord |-> RoomXY(i)[2], elevator |-> e]

\* the list of n locations with the given building, floor and elevator flag
\* per position
LocationList(n, b, f, e) == [i \in 1..n |-> LocationAt(i, b[i], f[i], e[i])]

----------------------------------------------------------------------------
(* nx.Graph: nodes in insertion order, node attributes, weighted edges.    *)
(* An edge is the set of its two end nodes.                                *)

Nodes(G) == {G.nodes[i] : i \in 1..Len(G.nodes)}

HasEdge(G, u, v) == {u, v} \in DOMAIN G.weight

Weight(G, u, v) == G.weight[{u, v}]

\* G.add_node for every location, in input order
add_nodes(locs) ==
    [nodes  |-> [i \in 1..Len(locs) |-> locs[i].room_number],
     attr   |-> [r \in {locs[i].room_number : i \in 1..Len(locs)} |->
                    locs[CHOOSE i \in 1..Len(locs) : locs[i].room_number = r]],
     weight |-> [e \in {} |-> 0]]

\* the two end nodes of an edge
End1(e) == CHOOSE a \in e : TRUE
End2(e) == CHOOSE b \in e : b # End1(e)

add_edges_if_absent(G, w) ==
    [G EXCEPT !.weight =
        [e \in (DOMAIN G.weight) \cup (DOMAIN w) |->
            IF e \in DOMAIN G.weight THEN G.weight[e] ELSE w[e]]]

\* G.add_edge(u, v, weight=w[{u, v}]) for every pair of DOMAIN w: a pair
\* already joined keeps its edge and takes the new weight
add_edges(G, w) ==
    [G EXCEPT !.weight =
        [e \in (DOMAIN G.weight) \cup (DOMAIN w) |->
            IF e \in DOMAIN w THEN w[e] ELSE G.weight[e]]]

Pairs(S) == {{a, b} : a \in S, b \in S} \ {{a} : a \in S}

ManhattanWeight(G, u, v) ==
    Abs(G.attr[u].x_coord - G.attr[v].x_coord) + Abs(G.attr[u].y_coord - G.attr[v].y_coord)

\* ((x1 - x2)**2 + (y1 - y2)**2)**0.5
EuclidWeight(G, u, v) ==
    Sqrt((G.attr[u].x_coord - G.attr[v].x_coord) * (G.attr[u].x_coord - G.attr[v].x_coord)
       + (G.attr[u].y_coord - G.attr[v].y_coord) * (G.attr[u].y_coord - G.attr[v].y_coord))

----------------------------------------------------------------------------
(* RouteOptimizer.create_graph *)

\* rule 1: same building, same floor
SameFloorPairs(G) ==
    {e \in Pairs(Nodes(G)) :
        \A u \in e, v \in e :
            /\ G.attr[u].building = G.attr[v].building
            /\ G.attr[u].floor = G.attr[v].floor}

ElevatorPairsOtherFloors(G) ==
    {e \in Pairs({n \in Nodes(G) : G.attr[n].elevator = 1}) :
        \A u \in e, v \in e :
            /\ G.attr[u].building = G.attr[v].building
            /\ u # v => G.attr[u].floor # G.attr[v].floor}

\* rule 2: both have an elevator, same building
ElevatorPairs(G) ==
    {e \in Pairs({n \in Nodes(G) : G.attr[n].elevator = 1}) :
        \A u \in e, v \in e : G.attr[u].building = G.attr[v].building}

ElevatorWeight(G, u, v) == Abs(G.attr[u].floor - G.attr[v].floor) * 10

building_representatives_first(G) ==
    [b \in {G.attr[n].building : n \in {m \in Nodes(G) : G.attr[m].floor = 1}} |->
        G.nodes[CHOOSE i \in 1..Len(G.nodes) :
                    /\ G.attr[G.nodes[i]].building = b
                    /\ G.attr[G.nodes[i]].floor = 1
                    /\ \A j \in 1..(i - 1) :
                          ~(G.attr[G.nodes[j]].building = b /\ G.attr[G.nodes[j]].floor = 1)]]

\* the last floor-1 node of each building, in node order
building_representatives(G) ==
    [b \in {G.attr[n].building : n \in {m \in Nodes(G) : G.attr[m].floor = 1}} |->
        G.nodes[CHOOSE i \in 1..Len(G.nodes) :
                    /\ G.attr[G.nodes[i]].building = b
                    /\ G.attr[G.nodes[i]].floor = 1
                    /\ \A j \in (i + 1)..Len(G.nodes) :
                          ~(G.attr[G.nodes[j]].building = b /\ G.attr[G.nodes[j]].floor = 1)]]

\* rule 3: every node to the representative of its building
HubPairs(G) ==
    LET rep == building_representatives(G)
    IN {{n, rep[G.attr[n].building]} :
            n \in {m \in Nodes(G) : /\ G.attr[m].building \in DOMAIN rep
                                    /\ m # rep[G.attr[m].building]}}

HubWeightFloor(G, u, v) == Abs(G.attr[u].floor - G.attr[v].floor)

HubWeight(G, u, v) == Abs(G.attr[u].floor - G.attr[v].floor) * 10

\* rule 4: the representatives of every two buildings
NoInterBuildingPairs(G) == {}

InterBuildingPairs(G) ==
    LET rep == building_representatives(G)
    IN {{rep[b1], rep[b2]} : b1 \in DOMAIN rep, b2 \in DOMAIN rep} \ {{n} : n \in Nodes(G)}

InterBuildingWeightEuclid(G, u, v) == EuclidWeight(G, u, v)

InterBuildingWeight(G, u, v) == 100

create_graph(locs) ==
    LET G0 == add_nodes(locs)
        G1 == add_edges(G0, [e \in SameFloorPairs(G0) |-> EuclidWeight(G0, End1(e), End2(e))])
        G2 == add_edges(G1, [e \in ElevatorPairs(G1) |-> ElevatorWeight(G1, End1(e), End2(e))])
        G3 == add_edges(G2, [e \in HubPairs(G2) |-> HubWeight(G2, End1(e), End2(e))])
    IN add_edges(G3, [e \in InterBuildingPairs(G3) |->
                         InterBuildingWeight(G3, End1(e), End2(e))])

----------------------------------------------------------------------------
(* graph_util.build_graph: the complete graph *)

StairsWeightSquared(G, u, v) ==
    EuclidWeight(G, u, v)
        + Abs(G.attr[u].floor - G.attr[v].floor) * Abs(G.attr[u].floor - G.attr[v].floor) * 5

\* dist + stairs * 5
StairsWeight(G, u, v) ==
    EuclidWeight(G, u, v) + Abs(G.attr[u].floor - G.attr[v].floor) * 5

build_graph(locs) ==
    LET G0 == add_nodes(locs)
    IN add_edges(G0, [e \in Pairs(Nodes(G0)) |-> StairsWeight(G0, End1(e), End2(e))])

----------------------------------------------------------------------------
(* nx.shortest_path(G, source, target, weight='weight'): Dijkstra *)

\* float('inf')
Infinity == -1

Range(p) == {p[i] : i \in 1..Len(p)}

\* sum(G[u][v]['weight'] for u, v in zip(path, path[1:]))
path_cost(G, p) == SumSeq([i \in 1..(Len(p) - 1) |-> Weight(G, p[i], p[i + 1])])

\* the unsettled node to settle next: one of least tentative distance
NextSettledAny(fringe, dist) == CHOOSE n \in fringe : TRUE

NextSettled(fringe, dist) == CHOOSE n \in fringe : \A m \in fringe : dist[n] <= dist[m]

RECURSIVE dijkstra(_, _, _)
dijkstra(G, dist, done) ==
    LET fringe == {n \in Nodes(G) \ done : dist[n] # Infinity}
    IN IF fringe = {} THEN dist
       ELSE LET u == NextSettled(fringe, dist)
                relaxed == [n \in Nodes(G) |->
                    IF /\ n \notin done
                       /\ HasEdge(G, u, n)
                       /\ (dist[n] = Infinity \/ dist[u] + Weight(G, u, n) < dist[n])
                    THEN dist[u] + Weight(G, u, n)
                    ELSE dist[n]]
            IN dijkstra(G, relaxed, done \cup {u})

Distances(G, s) == dijkstra(G, [n \in Nodes(G) |-> IF n = s THEN 0 ELSE Infinity], {})

\* every path without a repeated node that extends p and ends in e
RECURSIVE Extend(_, _, _)
Extend(G, p, e) ==
    IF p[Len(p)] = e THEN {p}
    ELSE UNION {Extend(G, Append(p, n), e) :
                   n \in {m \in Nodes(G) \ Range(p) : HasEdge(G, p[Len(p)], m)}}

SimplePaths(G, s, e) == Extend(G, <<s>>, e)

Return(v) == [kind |-> "return", error |-> "", value |-> v]
Raise(x) == [kind |-> "raise", error |-> x, value |-> <<>>]

UnreachableOrZero(d) == d = Infinity \/ d = 0

\* no finite distance was found for the target
Unreachable(d) == d = Infinity

\* The outcomes the call can have: an error, or any path along which the
\* final distances add up (which of several minimal paths is returned is
\* left to the library).
nx_shortest_path(G, s, e) ==
    IF s \notin Nodes(G) \/ e \notin Nodes(G) THEN {Raise("NodeNotFound")}
    ELSE LET dist == Distances(G, s)
         IN IF Unreachable(dist[e]) THEN {Raise("NetworkXNoPath")}
            ELSE {Return(p) : p \in {q \in SimplePaths(G, s, e) :
                     \A i \in 1..(Len(q) - 1) :
                         dist[q[i + 1]] = dist[q[i]] + Weight(G, q[i], q[i + 1])}}

\* graph_util.shortest_path
shortest_path(G, s, e) == nx_shortest_path(G, s, e)

\* '엘리베이터' in <room name>: none of the room names r1..r5 contains it
ElevatorNamed(r) == FALSE

\* one line of RouteOptimizer.shortest_path's detailed_path: "current -> next (label)"
Step(G, u, v) ==
    [from |-> u, to |-> v,
     label |-> IF G.attr[u].building # G.attr[v].building THEN "building"
               ELSE IF G.attr[u].floor # G.attr[v].floor
                    THEN IF ElevatorNamed(u) /\ ElevatorNamed(v) THEN "elevator" ELSE "stairs"
                    ELSE "same"]

detailed_path(G, p) == [i \in 1..(Len(p) - 1) |-> Step(G, p[i], p[i + 1])]

RouteOptimizer_shortest_path_Quiet(G, s, e) ==
    IF s \notin Nodes(G) \/ e \notin Nodes(G) THEN {Return(<<>>)}
    ELSE {IF o.kind = "raise" THEN Return(<<>>) ELSE Return(detailed_path(G, o.value)) :
            o \in nx_shortest_path(G, s, e)}

\* RouteOptimizer.shortest_path: every failure leaves as a ValueError
RouteOptimizer_shortest_path(G, s, e) ==
    IF s \notin Nodes(G) \/ e \notin Nodes(G) THEN {Raise("ValueError")}
    ELSE {IF o.kind = "raise" THEN Raise("ValueError") ELSE Return(detailed_path(G, o.value)) :
            o \in nx_shortest_path(G, s, e)}

\* GraphUtil.find_shortest_path: every failure is logged and answered by []
find_shortest_path(G, s, e) ==
    IF s \notin Nodes(G) \/ e \notin Nodes(G) THEN {Return(<<>>)}
    ELSE {IF o.kind = "raise" THEN Return(<<>>) ELSE o : o \in nx_shortest_path(G, s, e)}

----------------------------------------------------------------------------
(* GraphSpec: build a graph, query it *)

QueryRooms == {RoomNames[i] : i \in 1..MaxLocs}

NoQuery == [method |-> "none", start |-> "", end |-> ""]
NoOutcome == [kind |-> "none", error |-> "", value |-> <<>>]

\* the random choices of a call are free; no call has returned yet
Free == [on |-> FALSE, rest |-> <<>>]
NoCall == [called |-> FALSE, result |-> <<>>, built |-> 0]

\* a cell without a class, a call without a value: None
None == [none |-> TRUE]

\* calc_total_move is not being called
NoMoveArgs ==
    /\ room_assignments = <<>>
    /\ teacher_assignments = <<>>
    /\ teacher_home_rooms = <<>>

\* DeliveryOptimizationSystem.__init__: not running, not paused, the timer
\* made but not started
SystemInit ==
    /\ is_running = FALSE
    /\ is_paused = FALSE
    /\ timer_active = FALSE
    /\ current_cycle = 0
    /\ calls = <<>>

NoResult ==
    [call |-> "none", path |-> <<>>, type |-> "<None>", value |-> None, ok |-> FALSE,
     hit |-> FALSE, read |-> FALSE, changed |-> FALSE]

\* DataManager.__init__: both dicts empty; no file in the data directory
CacheInit ==
    /\ files = <<>>
    /\ cache = <<>>
    /\ last_modified = <<>>
    /\ last_stored = <<>>
    /\ result = NoResult

NoMoveCall == NoMoveArgs /\ SystemInit /\ CacheInit

SchedIdle ==
    /\ school_data = <<>>
    /\ trials = 0
    /\ pc = "idle"
    /\ trial = 0
    /\ timetables = <<>>
    /\ class_subject_slots = <<>>
    /\ class_subject_count = <<>>
    /\ cell = <<1, 1, 1>>
    /\ used_teachers = {}
    /\ total_move = 0
    /\ best_timetables = <<>>
    /\ best_total_move = Infinity
    /\ history = <<>>
    /\ choices = <<>>
    /\ replay = Free
    /\ earlier = NoCall
    /\ built = 0
    /\ best_built = 0

\* Buildings are only compared with each other, so they are called "A", "B"
\* and "C" in the order in which the list first names them; build_graph
\* never reads the elevator flag, so its locations carry none.
GraphInit ==
    /\ builder \in {"create_graph", "build_graph"}
    /\ \E n \in 0..MaxLocs :
          \E b \in [1..n -> Buildings], f \in [1..n -> Floors], e \in [1..n -> {0, 1}] :
              /\ n > 0 => b[1] = "A"
              /\ \A i \in 1..n : b[i] = "C" => \E j \in 1..(i - 1) : b[j] = "B"
              /\ builder = "build_graph" => \A i \in 1..n : e[i] = 0
              /\ locations = LocationList(n, b, f, e)
    /\ graph = IF builder = "create_graph" THEN create_graph(locations)
                                           ELSE build_graph(locations)
    /\ query = NoQuery
    /\ outcome = NoOutcome
    /\ NoMoveCall
    /\ SchedIdle

\* A call leaves the graph as it is, so every outcome is that of a first
\* call: a run makes one.
Ask(method, s, e, outcomes) ==
    /\ query = NoQuery
    /\ \E o \in outcomes :
          /\ query' = [method |-> method, start |-> s, end |-> e]
          /\ outcome' = o
    /\ UNCHANGED <<locations, builder, graph, move_vars, system_vars, cache_vars,
                   sched_vars, call_vars, dict_vars>>

\* RouteOptimizer.shortest_path(start, end) on the graph create_graph built
RouteShortestPath ==
    /\ builder = "create_graph"
    /\ \E s \in QueryRooms, e \in QueryRooms :
          Ask("RouteOptimizer.shortest_path", s, e, RouteOptimizer_shortest_path(graph, s, e))

\* graph_util.shortest_path(G, start, end) on either graph
UtilShortestPath ==
    \E s \in QueryRooms, e \in QueryRooms :
        Ask("graph_util.shortest_path", s, e, shortest_path(graph, s, e))

\* GraphUtil.find_shortest_path(start_id, end_id) on a complete graph
FindShortestPath ==
    /\ builder = "build_graph"
    /\ \E s \in QueryRooms, e \in QueryRooms :
          Ask("GraphUtil.find_shortest_path", s, e, find_shortest_path(graph, s, e))

GraphNext == RouteShortestPath \/ UtilShortestPath \/ FindShortestPath

GraphSpec == GraphInit /\ [][GraphNext]_vars

----------------------------------------------------------------------------
(* Scheduler: inputs *)

\* an empty teacher or room field ('' is falsy, like None)
NoTeacher == ""
NoRoom == ""

\* '월요일', '화요일', '수요일', '목요일', '금요일'
days == <<"Mon", "Tue", "Wed", "Thu", "Fri">>

periods_per_day == [Mon |-> 7, Tue |-> 7, Wed |-> 4, Thu |-> 7, Fri |-> 5]

\* the class identifiers in sorted order
ClassOrder == <<"1", "2">>

\* str.strip on the tokens of a class list
Strip(token) == IF token = " 1" THEN "1" ELSE IF token = " 2" THEN "2" ELSE token

\* A requirement row: 과목 (subject), 선생님 (teacher), 담당 교실 (room),
\* 주간시수 (hours), 담당 반 (classes, here already split at the commas).
Row(subject, teacher, room, hours, classes) ==
    [subject |-> subject, teacher |-> teacher, room |-> room, hours |-> hours,
     classes |-> classes]

\* The rows the inputs are drawn from: a class of its own with two subjects
\* in different rooms, a teacher shared by two classes, a row without a
\* teacher, a subject named by two rows of one class, a class list written
\* with a blank after the comma.
RowCatalogue ==
    { Row("math",  "kim", "r1", 2, <<"1">>),
      Row("art",   "lee", "r2", 1, <<"1">>),
      Row("math",  "park", "r2", 1, <<"1">>),
      Row("math",  "kim", "r1", 1, <<"1", "2">>),
      Row("art",   NoTeacher, "r3", 1, <<"1", "2">>),
      Row("music", "lee", "r3", 1, <<"1", " 2">>) }

\* Rows of 31 hours, one more than the 30 cells of the week: for one class
\* with a teacher, and for two classes without one.
LongRows ==
    { Row("pe", "choi", "r1", 31, <<"1">>),
      Row("pe", NoTeacher, "r2", 31, <<"1", "2">>) }

\* A week of three lessons, the room of one of which ("r9") is not among
\* the school's locations.
UnknownRoomRows ==
    << Row("math", "kim", "r1", 1, <<"1">>),
       Row("pe", "choi", "r9", 1, <<"1">>),
       Row("art", "lee", "r2", 1, <<"1">>) >>

\* Eight lessons in two rooms: more than the seven cells of the first day.
TwoDayRows ==
    << Row("pe", "choi", "r1", 7, <<"1">>),
       Row("art", "lee", "r2", 1, <<"1">>) >>

\* Two classes that both need one teacher for two hours; the second class
\* has one lesson more, with a teacher of its own.
SharedTeacherRows ==
    << Row("math", "kim", "r1", 2, <<"1", "2">>),
       Row("art", "lee", "r2", 1, <<"2">>) >>

RowLists ==
    UNION {[1..n -> RowCatalogue] : n \in 0..MaxRows}
        \cup {<<row>> : row \in LongRows}
        \cup {UnknownRoomRows, TwoDayRows, SharedTeacherRows}

\* the rooms of the school the timetable is made for
SchoolLocations ==
    << LocationAt(1, "A", 1, 0), LocationAt(2, "A", 2, 0), LocationAt(3, "B", 1, 0) >>

----------------------------------------------------------------------------
(* Scheduler.get_classes and the per-trial setup of generate *)

SortedClasses(S) == SelectSeq(ClassOrder, LAMBDA c : c \in S)

\* sorted({c.strip() for every row, for c in str(row['담당 반']).split(',')})
get_classes(rows) ==
    SortedClasses({Strip(t) : t \in UNION {Range(rows[i].classes) : i \in 1..Len(rows)}})

\* the rows whose split class list holds the identifier itself
class_rows(rows, class_num) ==
    SelectSeq(rows, LAMBDA row : class_num \in Range(row.classes))

\* a slot that takes the teacher's name for the room
SlotOfTeacherAsRoom(row) ==
    [subject |-> row.subject, teacher |-> row.teacher, room |-> row.teacher]

\* {'과목': row['과목'], '선생님': row['선생님'], '교실': row['담당 교실']}
SlotOf(row) == [subject |-> row.subject, teacher |-> row.teacher, room |-> row.room]

AllSlots(rows) == {SlotOf(rows[i]) : i \in 1..Len(rows)}

AllSubjects(rows) == {rows[i].subject : i \in 1..Len(rows)}

\* subject_slots: row.hours slots per row.  The list is read only by a
\* filter, by random.choice over the filtered list and by list.remove of a
\* value, none of which depends on the order random.shuffle gives it, so it
\* is kept as the number of slots of each kind.
subject_slots(rows, class_num) ==
    LET mine == class_rows(rows, class_num)
    IN [slot \in AllSlots(rows) |->
          SumSeq([i \in 1..Len(mine) |-> IF SlotOf(mine[i]) = slot THEN mine[i].hours ELSE 0])]

\* subject_count[row['과목']] = count: a later row of the subject replaces
\* the count of an earlier one; .get(subject, 0) for the others
subject_count(rows, class_num) ==
    LET mine == class_rows(rows, class_num)
    IN [subject \in AllSubjects(rows) |->
          IF \E i \in 1..Len(mine) : mine[i].subject = subject
          THEN mine[Max({i \in 1..Len(mine) : mine[i].subject = subject})].hours
          ELSE 0]

class_list == get_classes(school_data)

EmptyWeek == [d \in Range(days) |-> [p \in 1..periods_per_day[d] |-> None]]

----------------------------------------------------------------------------
(* Scheduler.generate: one trial *)

SchedInit ==
    /\ locations = SchoolLocations
    /\ builder = "build_graph"
    /\ graph = build_graph(locations)
    /\ query = NoQuery
    /\ outcome = NoOutcome
    /\ NoMoveCall
    /\ school_data \in RowLists
    /\ trials \in 0..MaxTrials
    /\ pc = "loop"
    /\ trial = 0
    /\ timetables = <<>>
    /\ class_subject_slots = <<>>
    /\ class_subject_count = <<>>
    /\ cell = <<1, 1, 1>>
    /\ used_teachers = {}
    /\ total_move = 0
    /\ best_timetables = None
    /\ best_total_move = Infinity
    /\ history = <<>>
    /\ choices = <<>>
    /\ replay = Free
    /\ earlier = NoCall
    /\ built = 0
    /\ best_built = 0

SameDict(n) == n

\* timetables = {...}: the comprehension builds a dict that did not exist
NewDict(n) == n + 1

\* for _ in range(trials): fresh timetables, pools and counts
StartTrial ==
    /\ pc = "loop"
    /\ trial < trials
    /\ timetables' = [c \in Range(class_list) |-> EmptyWeek]
    /\ built' = NewDict(built)
    /\ class_subject_slots' = [c \in Range(class_list) |-> subject_slots(school_data, c)]
    /\ class_subject_count' = [c \in Range(class_list) |-> subject_count(school_data, c)]
    /\ cell' = <<1, 1, 1>>
    /\ used_teachers' = {}
    /\ total_move' = 0
    /\ pc' = IF class_list = <<>> THEN "cost" ELSE "fill"
    /\ UNCHANGED <<graph_vars, call_vars, best_built, school_data, trials, trial, best_timetables,
                   best_total_move, history>>

available_slots_any_teacher(class_num) ==
    {slot \in AllSlots(school_data) :
        /\ class_subject_slots[class_num][slot] > 0
        /\ class_subject_count[class_num][slot.subject] > 0}

\* the slots of the class that may go into the current cell
available_slots(class_num) ==
    {slot \in AllSlots(school_data) :
        /\ class_subject_slots[class_num][slot] > 0
        /\ class_subject_count[class_num][slot.subject] > 0
        /\ slot.teacher \notin used_teachers}

\* no class has a slot left whose subject still has hours
Exhausted ==
    \A c \in Range(class_list) : \A slot \in AllSlots(school_data) :
        ~(class_subject_slots[c][slot] > 0 /\ class_subject_count[c][slot.subject] > 0)

\* the loop variables after the body: next class, else next period with an
\* empty used_teachers, else next day; past the last cell the fill is over
Advance(used) ==
    LET d == cell[1]
        p == cell[2]
        k == cell[3]
    IN IF k < Len(class_list)
       THEN /\ cell' = <<d, p, k + 1>>
            /\ used_teachers' = used
            /\ pc' = "fill"
       ELSE /\ used_teachers' = {}
            /\ IF p < periods_per_day[days[d]]
               THEN cell' = <<d, p + 1, 1>> /\ pc' = "fill"
               ELSE IF d < Len(days)
                    THEN cell' = <<d + 1, 1, 1>> /\ pc' = "fill"
                    ELSE cell' = <<1, 1, 1>> /\ pc' = "cost"

TakenEvery(pool, slot) == [pool EXCEPT ![slot] = 0]

\* class_subject_slots[class_num].remove(slot)
Taken(pool, slot) == [pool EXCEPT ![slot] = @ - 1]

\* random.choice(available_slots) returns the slot; a repeated call draws
\* what the call before drew
Drawn(slot) ==
    /\ replay.on => (replay.rest # <<>> /\ slot = Head(replay.rest))
    /\ replay' = IF replay.on THEN [replay EXCEPT !.rest = Tail(@)] ELSE replay
    /\ choices' = Append(choices, slot)

PlaceSlotUnconsumed ==
    /\ pc = "fill"
    /\ LET c == class_list[cell[3]]
           d == days[cell[1]]
       IN /\ available_slots(c) # {}
          /\ \E slot \in available_slots(c) :
                /\ Drawn(slot)
                /\ timetables' = [timetables EXCEPT ![c][d][cell[2]] = slot]
                /\ Advance(IF slot.teacher # NoTeacher
                           THEN used_teachers \cup {slot.teacher}
                           ELSE used_teachers)
    /\ UNCHANGED <<graph_vars, earlier, dict_vars, school_data, trials, trial, total_move,
                   class_subject_slots, class_subject_count,
                   best_timetables, best_total_move, history>>

\* if available_slots: slot = random.choice(available_slots)
PlaceSlot ==
    /\ pc = "fill"
    /\ LET c == class_list[cell[3]]
           d == days[cell[1]]
       IN /\ available_slots(c) # {}
          /\ \E slot \in available_slots(c) :
                /\ Drawn(slot)
                /\ class_subject_count' =
                      [class_subject_count EXCEPT ![c][slot.subject] = @ - 1]
                /\ class_subject_slots' =
                      [class_subject_slots EXCEPT ![c] = Taken(@, slot)]
                /\ timetables' = [timetables EXCEPT ![c][d][cell[2]] = slot]
                /\ Advance(IF slot.teacher # NoTeacher
                           THEN used_teachers \cup {slot.teacher}
                           ELSE used_teachers)
    /\ UNCHANGED <<graph_vars, earlier, dict_vars, school_data, trials, trial, total_move,
                   best_timetables, best_total_move, history>>

\* else: slot = None
LeaveEmpty ==
    /\ pc = "fill"
    /\ LET c == class_list[cell[3]]
           d == days[cell[1]]
       IN /\ ~Exhausted
          /\ available_slots(c) = {}
          /\ timetables' = [timetables EXCEPT ![c][d][cell[2]] = None]
          /\ Advance(used_teachers)
    /\ UNCHANGED <<graph_vars, call_vars, dict_vars, school_data, trials, trial, total_move,
                   class_subject_slots, class_subject_count,
                   best_timetables, best_total_move, history>>

\* The remaining iterations of the three loops when nothing is left to
\* place: each finds available_slots empty and writes None into a cell that
\* holds None since the trial began.
LeaveRestEmpty ==
    /\ pc = "fill"
    /\ Exhausted
    /\ cell' = <<1, 1, 1>>
    /\ used_teachers' = {}
    /\ pc' = "cost"
    /\ UNCHANGED <<graph_vars, call_vars, dict_vars, school_data, trials, trial, total_move, timetables,
                   class_subject_slots, class_subject_count,
                   best_timetables, best_total_move, history>>

----------------------------------------------------------------------------
(* Scheduler.generate: the cost of a trial and the best of the trials *)

\* the cells of a class's week in day and period order
RECURSIVE WeekFrom(_, _)
WeekFrom(week, d) ==
    IF d > Len(days) THEN <<>> ELSE week[days[d]] \o WeekFrom(week, d + 1)

WeekCells(week) == WeekFrom(week, 1)

\* the weight of the path shortest_path finds; a failing call adds nothing
move_cost(G, prev_room, room) ==
    LET o == CHOOSE x \in shortest_path(G, prev_room, room) : TRUE
    IN IF o.kind = "raise" THEN 0 ELSE path_cost(G, o.value)

next_prev_room_if_found(G, prev_room, room) ==
    IF prev_room # NoRoom /\ (CHOOSE x \in shortest_path(G, prev_room, room) : TRUE).kind = "raise"
    THEN prev_room
    ELSE room

\* prev_room = room, after the try statement
next_prev_room(G, prev_room, room) == room

\* the walk over one class's cells from cell i on, prev_room carried along
RECURSIVE class_move(_, _, _, _)
class_move(G, cells, i, prev_room) ==
    IF i > Len(cells) THEN 0
    ELSE IF cells[i] # None /\ cells[i].room # NoRoom
         THEN (IF prev_room # NoRoom THEN move_cost(G, prev_room, cells[i].room) ELSE 0)
              + class_move(G, cells, i + 1, next_prev_room(G, prev_room, cells[i].room))
         ELSE class_move(G, cells, i + 1, prev_room)

calc_move_by_day(G, tt) ==
    SumSeq([k \in 1..Len(class_list) |->
              SumSeq([d \in 1..Len(days) |->
                        class_move(G, tt[class_list[k]][days[d]], 1, NoRoom)])])

\* total_move: prev_room is set to None once per class, before the days
calc_move(G, tt) ==
    SumSeq([k \in 1..Len(class_list) |->
              class_move(G, WeekCells(tt[class_list[k]]), 1, NoRoom)])

EvaluateTrial ==
    /\ pc = "cost"
    /\ total_move' = calc_move(graph, timetables)
    /\ pc' = "best"
    /\ UNCHANGED <<graph_vars, call_vars, dict_vars, school_data, trials, trial, timetables,
                   class_subject_slots, class_subject_count, cell, used_teachers,
                   best_timetables, best_total_move, history>>

BetterOrEqual(move, best) == best = Infinity \/ move <= best

\* total_move < best_total_move
Better(move, best) == best = Infinity \/ move < best

EndTrial ==
    /\ trial' = trial + 1
    /\ history' = Append(history, [timetables |-> timetables, total_move |-> total_move])
    /\ pc' = "loop"
    /\ UNCHANGED <<graph_vars, call_vars, built, school_data, trials, timetables, class_subject_slots,
                   class_subject_count, cell, used_teachers, total_move>>

ReplaceBest ==
    /\ pc = "best"
    /\ Better(total_move, best_total_move)
    /\ best_total_move' = total_move
    /\ best_timetables' = timetables
    /\ best_built' = built
    /\ EndTrial

KeepBest ==
    /\ pc = "best"
    /\ ~Better(total_move, best_total_move)
    /\ UNCHANGED <<best_total_move, best_timetables, best_built>>
    /\ EndTrial

\* return best_timetables
ReturnBest ==
    /\ pc = "loop"
    /\ trial = trials
    /\ pc' = "done"
    /\ UNCHANGED <<graph_vars, call_vars, dict_vars, school_data, trials, trial, timetables,
                   class_subject_slots, class_subject_count, cell, used_teachers,
                   total_move, best_timetables, best_total_move, history>>

Next == StartTrial \/ PlaceSlot \/ LeaveEmpty \/ LeaveRestEmpty \/ EvaluateTrial
        \/ ReplaceBest \/ KeepBest \/ ReturnBest

Spec == SchedInit /\ [][Next]_vars

----------------------------------------------------------------------------
(* A second call of generate on the same Scheduler *)

\* the locals of a call that has not started its first trial
FreshLocals ==
    /\ pc' = "loop"
    /\ trial' = 0
    /\ timetables' = <<>>
    /\ class_subject_slots' = <<>>
    /\ class_subject_count' = <<>>
    /\ cell' = <<1, 1, 1>>
    /\ used_teachers' = {}
    /\ total_move' = 0
    /\ history' = <<>>

CallAgainKeepingBest ==
    /\ pc = "done"
    /\ ~earlier.called
    /\ earlier' = [called |-> TRUE, result |-> best_timetables, built |-> best_built]
    /\ replay' = [on |-> TRUE, rest |-> choices]
    /\ choices' = <<>>
    /\ FreshLocals
    /\ best_timetables' = None
    /\ best_built' = 0
    /\ UNCHANGED <<graph_vars, school_data, trials, best_total_move, built>>

\* generate(trials) once more, with the random source in the state it had
\* before the first call: self.school_data and self.graph are those of the
\* first call, best_timetables and best_total_move start again from None
\* and infinity
CallAgain ==
    /\ pc = "done"
    /\ ~earlier.called
    /\ earlier' = [called |-> TRUE, result |-> best_timetables, built |-> best_built]
    /\ replay' = [on |-> TRUE, rest |-> choices]
    /\ choices' = <<>>
    /\ FreshLocals
    /\ best_timetables' = None
    /\ best_total_move' = Infinity
    /\ best_built' = 0
    /\ UNCHANGED <<graph_vars, school_data, trials, built>>

AgainNext == Next \/ CallAgain

AgainSpec == SchedInit /\ [][AgainNext]_vars

----------------------------------------------------------------------------
(* Scheduler.calc_total_move(room_assignments, teacher_assignments) *)

\* the days of the grids: len(room_assignments[0])
GridDays == 1..2

GridRooms == {"r1", "r2"}
GridTeachers == {"kim", "lee"}

\* None where a room name is expected (prev_room, Teacher.home_room)
NoneRoom == "<None>"

\* {t.name: t.home_room}: no teacher known; one with a home room; one with
\* a home room and one whose home_room is None
HomeRoomMaps ==
    { <<>>,
      [t \in {"kim"} |-> "r3"],
      [t \in {"kim", "lee"} |-> IF t = "kim" THEN "r3" ELSE NoneRoom] }

\* if prev_room: (None and '' are falsy)
Truthy(x) == x # NoneRoom /\ x # NoRoom

home_room_unused(homes, prev_room, teacher) == prev_room

\* if prev_room is None and teacher in self.teacher_home_rooms:
\*     prev_room = self.teacher_home_rooms[teacher]
home_room(homes, prev_room, teacher) ==
    IF prev_room = NoneRoom /\ teacher \in DOMAIN homes THEN homes[teacher] ELSE prev_room

\* the periods of one day from period p on: the total so far, or the error
\* of the first shortest_path call that fails
RECURSIVE day_move(_, _, _, _, _, _, _)
day_move(G, rooms, teachers, homes, day, p, acc) ==
    IF p > Len(rooms) THEN Return(acc.total)
    ELSE LET room == rooms[p][day]
             prev == home_room(homes, acc.prev_room, teachers[p][day].teacher)
         IN IF Truthy(prev)
            THEN LET o == CHOOSE x \in shortest_path(G, prev, room) : TRUE
                 IN IF o.kind = "raise" THEN o
                    ELSE day_move(G, rooms, teachers, homes, day, p + 1,
                                  [total |-> acc.total + path_cost(G, o.value),
                                   prev_room |-> room])
            ELSE day_move(G, rooms, teachers, homes, day, p + 1,
                          [total |-> acc.total, prev_room |-> room])

\* for day in range(...): prev_room = None; ...
RECURSIVE calc_total_move(_, _, _, _, _, _)
calc_total_move(G, rooms, teachers, homes, day, total) ==
    IF day > Len(rooms[1]) THEN Return(total)
    ELSE LET o == day_move(G, rooms, teachers, homes, day, 1,
                           [total |-> total, prev_room |-> NoneRoom])
         IN IF o.kind = "raise" THEN o
            ELSE calc_total_move(G, rooms, teachers, homes, day + 1, o.value)

MoveInit ==
    /\ locations = SchoolLocations
    /\ builder = "build_graph"
    /\ graph = build_graph(locations)
    /\ query = NoQuery
    /\ outcome = NoOutcome
    /\ room_assignments \in [1..MaxPeriods -> [GridDays -> GridRooms]]
    /\ teacher_assignments \in [1..MaxPeriods -> [GridDays -> [teacher : GridTeachers]]]
    /\ teacher_home_rooms \in HomeRoomMaps
    /\ SystemInit
    /\ CacheInit
    /\ SchedIdle

CalcTotalMove ==
    /\ query = NoQuery
    /\ query' = [method |-> "Scheduler.calc_total_move", start |-> "", end |-> ""]
    /\ outcome' = calc_total_move(graph, room_assignments, teacher_assignments,
                                  teacher_home_rooms, 1, 0)
    /\ UNCHANGED <<locations, builder, graph, move_vars, system_vars, cache_vars,
                   sched_vars, call_vars, dict_vars>>

MoveNext == CalcTotalMove

MoveSpec == MoveInit /\ [][MoveNext]_vars

----------------------------------------------------------------------------
(* DeliveryOptimizationSystem: start, stop and pause (SystemSpec) *)

\* the objects of the other sections are idle
Elsewhere ==
    /\ locations = SchoolLocations
    /\ builder = "build_graph"
    /\ graph = build_graph(locations)
    /\ query = NoQuery
    /\ outcome = NoOutcome
    /\ NoMoveArgs
    /\ SchedIdle

\* the number of calls of the system's methods that are followed
MaxCalls == 4

\* one more call of the method m is followed
Called(m) ==
    /\ Len(calls) < MaxCalls
    /\ calls' = Append(calls, m)

\* start_system without its test of is_running
start_system_unguarded ==
    /\ Called("start_system")
    /\ is_running' = TRUE
    /\ is_paused' = FALSE
    /\ timer_active' = TRUE
    /\ UNCHANGED <<current_cycle, cache_vars>>
    /\ UNCHANGED <<locations, builder, graph, query, outcome, move_vars,
                   sched_vars, call_vars, dict_vars>>

\* start_system: only when the system is not running, it runs, is not
\* paused, and optimization_timer.start(...) makes the timer active
start_system ==
    /\ Called("start_system")
    /\ IF ~is_running
       THEN /\ is_running' = TRUE
            /\ is_paused' = FALSE
            /\ timer_active' = TRUE
       ELSE UNCHANGED <<is_running, is_paused, timer_active>>
    /\ UNCHANGED <<current_cycle, cache_vars>>
    /\ UNCHANGED <<locations, builder, graph, query, outcome, move_vars,
                   sched_vars, call_vars, dict_vars>>

\* stop_system: only when the system is running, it stops running and being
\* paused, and optimization_timer.stop() makes the timer inactive
stop_system ==
    /\ Called("stop_system")
    /\ IF is_running
       THEN /\ is_running' = FALSE
            /\ is_paused' = FALSE
            /\ timer_active' = FALSE
       ELSE UNCHANGED <<is_running, is_paused, timer_active>>
    /\ UNCHANGED <<current_cycle, cache_vars>>
    /\ UNCHANGED <<locations, builder, graph, query, outcome, move_vars,
                   sched_vars, call_vars, dict_vars>>

\* toggle_pause: only when the system is running, is_paused is negated; the
\* timer is stopped when the system is now paused and started otherwise
toggle_pause ==
    /\ Called("toggle_pause")
    /\ IF is_running
       THEN /\ is_paused' = ~is_paused
            /\ timer_active' = is_paused
            /\ UNCHANGED is_running
       ELSE UNCHANGED <<is_running, is_paused, timer_active>>
    /\ UNCHANGED <<current_cycle, cache_vars>>
    /\ UNCHANGED <<locations, builder, graph, query, outcome, move_vars,
                   sched_vars, call_vars, dict_vars>>

\* run_optimization_cycle, the slot of the timer's timeout: it returns at
\* once unless the system runs unpaused; a cycle that completes counts
\* itself, one that returns early or raises does not.  The timer repeats.
run_optimization_cycle ==
    /\ timer_active
    /\ Called("run_optimization_cycle")
    /\ IF ~is_running \/ is_paused
       THEN UNCHANGED current_cycle
       ELSE \E completed \in BOOLEAN :
               current_cycle' = IF completed THEN current_cycle + 1 ELSE current_cycle
    /\ UNCHANGED <<is_running, is_paused, timer_active, cache_vars>>
    /\ UNCHANGED <<locations, builder, graph, query, outcome, move_vars,
                   sched_vars, call_vars, dict_vars>>

SystemNext == start_system \/ stop_system \/ toggle_pause \/ run_optimization_cycle

\* the system as __init__ leaves it, its DataManager included
Constructed == Elsewhere /\ SystemInit /\ CacheInit

SystemSpec == Constructed /\ [][SystemNext]_vars

----------------------------------------------------------------------------
(* DataManager: the cache of loaded files (DataSpec) *)

\* the modification times a file can have
MaxMtime == 2

data_dir == "data"
FileNames == {"a.csv", "b.txt"}

\* os.path.splitext(file_name)[1].lower()
Extension(file_name) == IF file_name = "a.csv" THEN ".csv" ELSE ".txt"

\* os.path.join(self.data_dir, file_name)
FilePath(file_name) == <<data_dir, file_name>>

\* what a file can hold: a table, a table written by save_data, or text
\* that no reader parses
Contents == {"t1", "t2", "torn"}

\* a DataFrame: its rows, and whether _preprocess_data has been through it
DataFrame(rows, clean) == [rows |-> rows, clean |-> clean]

\* the DataFrames handed to save_data
Unsaved == {DataFrame("t2", FALSE)}

\* the file types a caller can name; None lets the name decide
FileTypes == {"csv", "txt"}

SupportedTypes == {"csv", "json", "excel"}

\* _detect_file_type: the type the extension stands for, None for others
detect_file_type(file_name) ==
    LET extension == Extension(file_name)
    IN  IF extension = ".csv" THEN "csv"
        ELSE IF extension = ".json" THEN "json"
        ELSE IF extension \in {".xlsx", ".xls"} THEN "excel"
        ELSE "<None>"

\* file_type, or the detected one when none is given
type_used(file_name, file_type) ==
    IF file_type = "<None>" THEN detect_file_type(file_name) ELSE file_type

\* d[k] = v
Store(d, k, v) == [x \in DOMAIN d \cup {k} |-> IF x = k THEN v ELSE d[x]]

\* del d[k]
Drop(d, k) ==
    IF DOMAIN d \ {k} = {} THEN <<>> ELSE [x \in DOMAIN d \ {k} |-> d[x]]

\* d.get(k)
Get(d, k) == IF k \in DOMAIN d THEN d[k] ELSE None

\* another program writes or removes a file of the data directory
TouchFile ==
    /\ \E name \in FileNames :
          \/ \E text \in Contents \ {"t2"}, mtime \in 1..MaxMtime :
                files' = Store(files, FilePath(name), [content |-> text, mtime |-> mtime])
          \/ /\ FilePath(name) \in DOMAIN files
             /\ files' = Drop(files, FilePath(name))
    /\ UNCHANGED <<cache, last_modified, last_stored, result, system_vars>>
    /\ UNCHANGED <<locations, builder, graph, query, outcome, move_vars,
                   sched_vars, call_vars, dict_vars>>

CallResult(call, path, type, value, ok, hit, read, changed) ==
    [call |-> call, path |-> path, type |-> type, value |-> value, ok |-> ok,
     hit |-> hit, read |-> read, changed |-> changed]

\* load_data: None for a missing file; the cached value when the recorded
\* modification time is the file's; None for a type that is not supported
\* or a file the reader fails on; otherwise the file is read, preprocessed
\* (as far as _preprocess_data gets), cached with its modification time
\* and returned
load_data ==
    /\ \E file_name \in FileNames, file_type \in FileTypes \cup {"<None>"} :
          LET file_path == FilePath(file_name)
              type == type_used(file_name, file_type)
              recorded == file_path \in DOMAIN last_modified
              changed == recorded /\ files[file_path].mtime # last_modified[file_path]
          IN  IF file_path \notin DOMAIN files
              THEN /\ result' = CallResult("load_data", file_path, type, None, FALSE,
                                         FALSE, FALSE, FALSE)
                   /\ UNCHANGED <<cache, last_modified, last_stored>>
              ELSE IF recorded /\ ~changed
              THEN /\ result' = CallResult("load_data", file_path, type,
                                         Get(cache, file_path), FALSE, TRUE, FALSE, FALSE)
                   /\ UNCHANGED <<cache, last_modified, last_stored>>
              ELSE IF type \notin SupportedTypes
              THEN /\ result' = CallResult("load_data", file_path, type, None, FALSE,
                                         FALSE, FALSE, changed)
                   /\ UNCHANGED <<cache, last_modified, last_stored>>
              ELSE IF files[file_path].content = "torn"
              THEN /\ result' = CallResult("load_data", file_path, type, None, FALSE,
                                         FALSE, TRUE, changed)
                   /\ UNCHANGED <<cache, last_modified, last_stored>>
              ELSE \E clean \in BOOLEAN :
                      LET data == DataFrame(files[file_path].content, clean)
                      IN  /\ cache' = Store(cache, file_path, data)
                          /\ last_modified' = Store(last_modified, file_path,
                                                    files[file_path].mtime)
                          /\ last_stored' = Store(last_stored, file_path, data)
                          /\ result' = CallResult("load_data", file_path, type, data,
                                                FALSE, FALSE, TRUE, changed)
    /\ UNCHANGED <<files, system_vars>>
    /\ UNCHANGED <<locations, builder, graph, query, outcome, move_vars,
                   sched_vars, call_vars, dict_vars>>

\* save_data: False for a type that is not supported or a write that
\* fails, which may leave a torn file; otherwise the file is written and
\* the data cached as given, with the file's new modification time unless
\* the file is gone again before it is asked for
save_data ==
    /\ \E data \in Unsaved, file_name \in FileNames, file_type \in FileTypes \cup {"<None>"} :
          LET file_path == FilePath(file_name)
              type == type_used(file_name, file_type)
              failed == CallResult("save_data", file_path, type, None, FALSE,
                                 FALSE, FALSE, FALSE)
          IN  IF type \notin SupportedTypes
              THEN /\ result' = failed
                   /\ UNCHANGED <<files, cache, last_modified, last_stored>>
              ELSE \/ /\ result' = failed
                      /\ UNCHANGED <<files, cache, last_modified, last_stored>>
                   \/ \E mtime \in 1..MaxMtime :
                         /\ files' = Store(files, file_path,
                                           [content |-> "torn", mtime |-> mtime])
                         /\ result' = failed
                         /\ UNCHANGED <<cache, last_modified, last_stored>>
                   \/ /\ files' = Drop(files, file_path)
                      /\ cache' = Store(cache, file_path, data)
                      /\ last_stored' = Store(last_stored, file_path, data)
                      /\ result' = failed
                      /\ UNCHANGED last_modified
                   \/ \E mtime \in 1..MaxMtime :
                         /\ files' = Store(files, file_path,
                                           [content |-> data.rows, mtime |-> mtime])
                         /\ cache' = Store(cache, file_path, data)
                         /\ last_modified' = Store(last_modified, file_path, mtime)
                         /\ last_stored' = Store(last_stored, file_path, data)
                         /\ result' = CallResult("save_data", file_path, type, None, TRUE,
                                               FALSE, FALSE, FALSE)
    /\ UNCHANGED system_vars
    /\ UNCHANGED <<locations, builder, graph, query, outcome, move_vars,
                   sched_vars, call_vars, dict_vars>>

\* clear_cache that forgets the values and keeps the modification times
clear_cache_values_only ==
    /\ cache' = <<>>
    /\ result' = CallResult("clear_cache", <<>>, "<None>", None, FALSE, FALSE, FALSE, FALSE)
    /\ UNCHANGED <<files, last_modified, last_stored, system_vars>>
    /\ UNCHANGED <<locations, builder, graph, query, outcome, move_vars,
                   sched_vars, call_vars, dict_vars>>

\* clear_cache: both dicts are emptied
clear_cache ==
    /\ cache' = <<>>
    /\ last_modified' = <<>>
    /\ result' = CallResult("clear_cache", <<>>, "<None>", None, FALSE, FALSE, FALSE, FALSE)
    /\ UNCHANGED <<files, last_stored, system_vars>>
    /\ UNCHANGED <<locations, builder, graph, query, outcome, move_vars,
                   sched_vars, call_vars, dict_vars>>

DataNext == TouchFile \/ load_data \/ save_data \/ clear_cache

DataSpec == Constructed /\ [][DataNext]_vars

----------------------------------------------------------------------------
(* Properties of the graphs (GraphSpec) *)

Connected(G) == \A a \in Nodes(G), b \in Nodes(G) : SimplePaths(G, a, b) # {}

LocIdx == 1..Len(locations)

\* the floor-1 locations of building b, by position in the input
FloorOne(b) == {i \in LocIdx : locations[i].building = b /\ locations[i].floor = 1}

IsRepresentative(i) == FloorOne(locations[i].building) # {} /\ i = Max(FloorOne(locations[i].building))

EveryBuildingHasFloorOne == \A i \in LocIdx : FloorOne(locations[i].building) # {}

Asked(method) == query.method = method

\* the steps of a detailed path lead from s to e along edges of the graph
StepsLead(G, steps, s, e) ==
    /\ Len(steps) > 0
    /\ steps[1].from = s
    /\ steps[Len(steps)].to = e
    /\ \A i \in 1..Len(steps) : HasEdge(G, steps[i].from, steps[i].to)
    /\ \A i \in 1..(Len(steps) - 1) : steps[i].to = steps[i + 1].from

StepsCost(G, steps) == SumSeq([i \in 1..Len(steps) |-> Weight(G, steps[i].from, steps[i].to)])

\* C5: when every building has a floor-1 location, the graph create_graph
\* builds is connected: every location is reachable from every other.
\* (The graph is looked at as built: no query changes it.)
C5_Connected ==
    (builder = "create_graph" /\ query = NoQuery /\ EveryBuildingHasFloorOne) =>
        Connected(graph)

\* two buildings, three locations, one of them off floor 1, all reachable
C5_Witness ==
    /\ builder = "create_graph"
    /\ EveryBuildingHasFloorOne
    /\ Len(locations) = 3
    /\ {locations[i].building : i \in LocIdx} = {"A", "B"}
    /\ \E i \in LocIdx : locations[i].floor # 1
    /\ Connected(graph)

\* C6: on a connected graph the path shortest_path(a, b) returns weighs no
\* more than any other path from a to b.
C6_ShortestIsMinimal ==
    outcome.kind = "return" =>
        \/ /\ Asked("graph_util.shortest_path") =>
                 /\ outcome.value \in SimplePaths(graph, query.start, query.end)
                 /\ \A p \in SimplePaths(graph, query.start, query.end) :
                       path_cost(graph, outcome.value) <= path_cost(graph, p)
           /\ (Asked("RouteOptimizer.shortest_path") /\ query.start # query.end) =>
                 /\ StepsLead(graph, outcome.value, query.start, query.end)
                 /\ \A p \in SimplePaths(graph, query.start, query.end) :
                       StepsCost(graph, outcome.value) <= path_cost(graph, p)
        \/ ~Connected(graph)

\* a returned path of two hops that beats the direct edge
C6_Witness ==
    /\ Asked("graph_util.shortest_path")
    /\ outcome.kind = "return"
    /\ Connected(graph)
    /\ Len(outcome.value) = 3
    /\ HasEdge(graph, query.start, query.end)
    /\ path_cost(graph, outcome.value) < Weight(graph, query.start, query.end)

\* C7 as stated: shortest_path(a, a) returns the one-element path [a], cost 0.
C7_Original ==
    (/\ query.method \in {"graph_util.shortest_path", "RouteOptimizer.shortest_path"}
     /\ query.start = query.end
     /\ query.start \in Nodes(graph)) =>
        outcome = Return(<<query.start>>)

\* C7 (amended): graph_util.shortest_path(G, a, a) returns [a], of cost 0;
\* RouteOptimizer.shortest_path(a, a) returns the empty list of steps.
C7_SelfPath ==
    (query.start = query.end /\ query.start \in Nodes(graph)) =>
        /\ Asked("graph_util.shortest_path") =>
              outcome = Return(<<query.start>>) /\ path_cost(graph, outcome.value) = 0
        /\ Asked("RouteOptimizer.shortest_path") => outcome = Return(<<>>)

\* the single location of a graph without edges, asked for the way to itself
C7_Witness ==
    /\ Len(locations) = 1
    /\ DOMAIN graph.weight = {}
    /\ Asked("graph_util.shortest_path")
    /\ query.start = query.end
    /\ outcome = Return(<<locations[1].room_number>>)

BadQuery ==
    \/ query.start \notin Nodes(graph)
    \/ query.end \notin Nodes(graph)
    \/ SimplePaths(graph, query.start, query.end) = {}

C9_HubEdge ==
    builder = "create_graph" =>
        \A i \in LocIdx :
            (locations[i].floor # 1 /\ FloorOne(locations[i].building) # {}) =>
                LET rep == locations[Max(FloorOne(locations[i].building))].room_number
                IN /\ HasEdge(graph, locations[i].room_number, rep)
                   /\ Weight(graph, locations[i].room_number, rep)
                        = Abs(locations[i].floor - 1) * 10

\* a floor-0 and a floor-2 location, both with elevators, each joined to
\* the floor-1 location of their building by an edge of weight 10
C9_Witness ==
    /\ builder = "create_graph"
    /\ Len(locations) = 3
    /\ \A i \in LocIdx : locations[i].building = "A" /\ locations[i].elevator = 1
    /\ locations[1].floor = 0
    /\ locations[2].floor = 1
    /\ locations[3].floor = 2
    /\ Weight(graph, "r1", "r2") = 10
    /\ Weight(graph, "r3", "r2") = 10

SameFloor(i, j) ==
    /\ i # j
    /\ locations[i].building = locations[j].building
    /\ locations[i].floor = locations[j].floor

SquaredDistance(i, j) ==
    (locations[i].x_coord - locations[j].x_coord) * (locations[i].x_coord - locations[j].x_coord)
  + (locations[i].y_coord - locations[j].y_coord) * (locations[i].y_coord - locations[j].y_coord)

\* C10 as stated: every two locations of one building and floor are joined
\* by an edge weighted by their Euclidean distance.
C10_Original ==
    builder = "create_graph" =>
        \A i \in LocIdx, j \in LocIdx :
            SameFloor(i, j) =>
                /\ HasEdge(graph, locations[i].room_number, locations[j].room_number)
                /\ Weight(graph, locations[i].room_number, locations[j].room_number)
                    * Weight(graph, locations[i].room_number, locations[j].room_number)
                     = SquaredDistance(i, j)

\* C10 (amended): they are joined by an edge; its weight is the Euclidean
\* distance unless both have an elevator or one of them is the building's
\* representative, and then it is 0.
C10_SameFloorEdge ==
    builder = "create_graph" =>
        \A i \in LocIdx, j \in LocIdx :
            SameFloor(i, j) =>
                LET w == Weight(graph, locations[i].room_number, locations[j].room_number)
                IN /\ HasEdge(graph, locations[i].room_number, locations[j].room_number)
                   /\ IF \/ (locations[i].elevator = 1 /\ locations[j].elevator = 1)
                         \/ IsRepresentative(i)
                         \/ IsRepresentative(j)
                      THEN w = 0
                      ELSE w * w = SquaredDistance(i, j)

\* three locations on floor 1 of one building: the pair without the
\* representative keeps its distance, the pairs with it weigh 0
C10_Witness ==
    /\ builder = "create_graph"
    /\ Len(locations) = 3
    /\ \A i \in LocIdx : locations[i].building = "A" /\ locations[i].floor = 1
                          /\ locations[i].elevator = 0
    /\ Weight(graph, "r1", "r2") = 3
    /\ Weight(graph, "r2", "r3") = 0

\* C11: every two distinct locations of one building that both have an
\* elevator are joined by an edge of weight |floor_a - floor_b| * 10, on the
\* same floor or not.
C11_ElevatorEdge ==
    builder = "create_graph" =>
        \A i \in LocIdx, j \in LocIdx :
            (/\ i # j
             /\ locations[i].building = locations[j].building
             /\ locations[i].elevator = 1
             /\ locations[j].elevator = 1) =>
                /\ HasEdge(graph, locations[i].room_number, locations[j].room_number)
                /\ Weight(graph, locations[i].room_number, locations[j].room_number)
                     = Abs(locations[i].floor - locations[j].floor) * 10

\* three elevator locations of one building: two share floor 0 and are three
\* apart on the plan, the third is on floor 2
C11_Witness ==
    /\ builder = "create_graph"
    /\ Len(locations) = 3
    /\ \A i \in LocIdx : locations[i].building = "A" /\ locations[i].elevator = 1
    /\ locations[1].floor = 0
    /\ locations[2].floor = 0
    /\ locations[3].floor = 2
    /\ SquaredDistance(1, 2) = 9
    /\ Weight(graph, "r1", "r2") = 0
    /\ Weight(graph, "r1", "r3") = 20

\* the least weight of a path from s to e
MinCost(G, s, e) ==
    LET costs == {path_cost(G, p) : p \in SimplePaths(G, s, e)}
    IN CHOOSE c \in costs : \A d \in costs : c <= d

\* the graph's attributes of a room
LocOf(r) == locations[CHOOSE i \in LocIdx : locations[i].room_number = r]

RepOf(b) == locations[Max(FloorOne(b))].room_number

\* rule 1 or rule 2 applies to the room and some other room
HasFloorOrElevatorPair(r) ==
    \E i \in LocIdx :
        /\ locations[i].room_number # r
        /\ locations[i].building = LocOf(r).building
        /\ \/ locations[i].floor = LocOf(r).floor
           \/ locations[i].elevator = 1 /\ LocOf(r).elevator = 1

\* the cost of the answer of the query
AnswerCost ==
    IF Asked("RouteOptimizer.shortest_path") THEN StepsCost(graph, outcome.value)
                                             ELSE path_cost(graph, outcome.value)

\* a query on the graph of create_graph between two buildings that both
\* have a representative
AcrossBuildings ==
    /\ builder = "create_graph"
    /\ query.method # "none"
    /\ query.start \in Nodes(graph)
    /\ query.end \in Nodes(graph)
    /\ LocOf(query.start).building # LocOf(query.end).building
    /\ FloorOne(LocOf(query.start).building) # {}
    /\ FloorOne(LocOf(query.end).building) # {}

\* C12: between two locations of different buildings that each have a
\* representative, the shortest path costs the way to the own representative
\* plus 100 plus the way from the other representative; without same-floor
\* and elevator edges at the two ends that is
\* |floor_a - 1| * 10 + 100 + |floor_b - 1| * 10.
C12_AcrossBuildings ==
    AcrossBuildings =>
        LET a == query.start
            b == query.end
        IN /\ outcome.kind = "return"
           /\ AnswerCost = MinCost(graph, a, RepOf(LocOf(a).building)) + 100
                             + MinCost(graph, RepOf(LocOf(b).building), b)
           /\ (~HasFloorOrElevatorPair(a) /\ ~HasFloorOrElevatorPair(b)) =>
                 AnswerCost = Abs(LocOf(a).floor - 1) * 10 + 100
                               + Abs(LocOf(b).floor - 1) * 10

\* from the basement of one building, by its representative, to the
\* representative of another building
C12_Witness ==
    /\ AcrossBuildings
    /\ Asked("RouteOptimizer.shortest_path")
    /\ Len(locations) = 3
    /\ LocOf(query.start).floor = 0
    /\ LocOf(query.end).floor = 1
    /\ ~HasFloorOrElevatorPair(query.start)
    /\ AnswerCost = 110

\* three buildings: from one representative to another
C12_ThreeBuildings ==
    /\ AcrossBuildings
    /\ {locations[i].building : i \in LocIdx} = Buildings
    /\ AnswerCost = 100

\* the construction rules that apply to two locations, by number
RulesFor(i, j) ==
    {n \in 1..4 :
        \/ n = 1 /\ SameFloor(i, j)
        \/ n = 2 /\ locations[i].building = locations[j].building
                 /\ locations[i].elevator = 1 /\ locations[j].elevator = 1
        \/ n = 3 /\ locations[i].building = locations[j].building
                 /\ (IsRepresentative(i) \/ IsRepresentative(j))
        \/ n = 4 /\ locations[i].building # locations[j].building
                 /\ IsRepresentative(i) /\ IsRepresentative(j)}

\* the weight rule n gives the pair; the distance is given by its square
RuleGives(n, i, j, w) ==
    \/ n = 1 /\ w * w = SquaredDistance(i, j)
    \/ n = 2 /\ w = Abs(locations[i].floor - locations[j].floor) * 10
    \/ n = 3 /\ w = Abs(locations[i].floor - locations[j].floor) * 10
    \/ n = 4 /\ w = 100

\* C23: two locations are joined exactly when some rule applies to them,
\* and the weight of the edge is the one given by the last of the rules
\* that apply, in the order same floor, elevator, hub, inter-building link.
\* (The graph is looked at as built: no query changes it.)
C23_LastRuleWins ==
    (builder = "create_graph" /\ query = NoQuery) =>
        \A i \in LocIdx, j \in LocIdx :
            i < j =>
                LET u == locations[i].room_number
                    v == locations[j].room_number
                IN IF RulesFor(i, j) = {} THEN ~HasEdge(graph, u, v)
                   ELSE /\ HasEdge(graph, u, v)
                        /\ RuleGives(Max(RulesFor(i, j)), i, j, Weight(graph, u, v))

\* rules 1, 2 and 3 all apply to r1 and r2, three apart on floor 1: the
\* edge weighs what the hub rule gives, not the distance
C23_Witness ==
    /\ builder = "create_graph"
    /\ Len(locations) >= 2
    /\ RulesFor(1, 2) = {1, 2, 3}
    /\ SquaredDistance(1, 2) = 9
    /\ Weight(graph, "r1", "r2") = 0

\* two floor-1 locations of one building
BothFloorOne(i, j) ==
    /\ i # j
    /\ locations[i].building = locations[j].building
    /\ locations[i].floor = 1
    /\ locations[j].floor = 1

\* C25: of the floor-1 locations of a building the last in input order is
\* joined to each of the others by an edge of weight 0, and the shortest
\* path between any two of them costs 0, as does the answer to a query
\* between them.
C25_FloorOneFree ==
    builder = "create_graph" =>
        \A i \in LocIdx, j \in LocIdx :
            BothFloorOne(i, j) =>
                LET u == locations[i].room_number
                    v == locations[j].room_number
                IN /\ query = NoQuery =>
                          /\ (j = Max(FloorOne(locations[j].building))) =>
                                (HasEdge(graph, u, v) /\ Weight(graph, u, v) = 0)
                          /\ MinCost(graph, u, v) = 0
                   /\ (query.method # "none" /\ query.start = u /\ query.end = v) =>
                          (outcome.kind = "return" /\ AnswerCost = 0)

\* three floor-1 locations of one building without elevators: r3, the last,
\* is the representative; r1 and r2 keep their distance 3 as a direct edge
\* and the query from r1 to r2 is answered by the way through r3
C25_Witness ==
    /\ builder = "create_graph"
    /\ Len(locations) = 3
    /\ BothFloorOne(1, 2)
    /\ BothFloorOne(2, 3)
    /\ \A i \in LocIdx : locations[i].elevator = 0
    /\ Weight(graph, "r1", "r2") = 3
    /\ Weight(graph, "r1", "r3") = 0
    /\ Asked("graph_util.shortest_path")
    /\ outcome = Return(<<"r1", "r3", "r2">>)

\* C26: in the graph of build_graph every two locations, of whatever
\* buildings, have a direct edge of weight distance + 5 * |floor difference|;
\* no path between them is cheaper, and the shortest path that is found
\* costs the weight of the direct edge.
C26_DirectEdgeIsShortest ==
    builder = "build_graph" =>
        \A i \in LocIdx, j \in LocIdx :
            i # j =>
                LET u == locations[i].room_number
                    v == locations[j].room_number
                    stairs == Abs(locations[i].floor - locations[j].floor) * 5
                IN /\ query = NoQuery =>
                          /\ HasEdge(graph, u, v)
                          /\ Weight(graph, u, v) >= stairs
                          /\ (Weight(graph, u, v) - stairs) * (Weight(graph, u, v) - stairs)
                               = SquaredDistance(i, j)
                          /\ MinCost(graph, u, v) = Weight(graph, u, v)
                   /\ (query.method # "none" /\ query.start = u /\ query.end = v) =>
                         /\ outcome.kind = "return"
                         /\ path_cost(graph, outcome.value) = Weight(graph, u, v)

\* from the basement of one building to the second floor of another, three
\* apart on the plan, with a third location between the floors
C26_Witness ==
    /\ builder = "build_graph"
    /\ Len(locations) = 3
    /\ locations[1].building # locations[2].building
    /\ locations[1].floor = 0
    /\ locations[2].floor = 2
    /\ locations[3].floor = 1
    /\ Weight(graph, "r1", "r2") = 13
    /\ Asked("GraphUtil.find_shortest_path")
    /\ outcome = Return(<<"r1", "r2">>)

----------------------------------------------------------------------------
(* Properties of the timetables (Spec) *)

CellsOf(d) == 1..periods_per_day[d]

NumCells == SumSeq([d \in 1..Len(days) |-> periods_per_day[days[d]]])

\* the rows that apply to a class, as the class list of the row names it
RowsFor(class_num) ==
    SelectSeq(school_data, LAMBDA row : class_num \in {Strip(t) : t \in Range(row.classes)})

\* weekly hours the rows require of a subject for a class
Required(class_num, subject) ==
    LET mine == RowsFor(class_num)
    IN SumSeq([i \in 1..Len(mine) |-> IF mine[i].subject = subject THEN mine[i].hours ELSE 0])

TotalRequired(class_num) ==
    LET mine == RowsFor(class_num)
    IN SumSeq([i \in 1..Len(mine) |-> mine[i].hours])

\* number of cells of the class's week that hold a slot of the subject
Placed(tt, class_num, subject) ==
    Cardinality({dp \in UNION {{<<d, p>> : p \in CellsOf(d)} : d \in Range(days)} :
                    /\ tt[class_num][dp[1]][dp[2]] # None
                    /\ tt[class_num][dp[1]][dp[2]].subject = subject})

\* the timetables a run holds: the one under construction (every trial's
\* timetable in turn) and the best so far, which is the one returned
Timetables ==
    {timetables} \cup (IF best_timetables = None THEN {} ELSE {best_timetables})

Returned == pc = "done" /\ best_timetables # None

\* C1: in no timetable does a teacher's name stand in the cells of two
\* classes at the same day and period.  (A slot whose teacher field is empty
\* names no teacher.)
C1_NoDoubleBooking ==
    \A tt \in Timetables :
        \A c1 \in DOMAIN tt, c2 \in DOMAIN tt :
            \A d \in Range(days) : \A p \in CellsOf(d) :
                (/\ c1 # c2
                 /\ tt[c1][d][p] # None
                 /\ tt[c2][d][p] # None
                 /\ tt[c1][d][p].teacher # NoTeacher)
                    => tt[c1][d][p].teacher # tt[c2][d][p].teacher

\* the teacher both classes need went to class 1 in the first period, and
\* class 2 got the same teacher one period later
C1_Witness ==
    /\ Returned
    /\ DOMAIN best_timetables = {"1", "2"}
    /\ best_timetables["1"]["Mon"][1] # None
    /\ best_timetables["1"]["Mon"][1].teacher = "kim"
    /\ best_timetables["2"]["Mon"][1] = None
    /\ best_timetables["2"]["Mon"][2] # None
    /\ best_timetables["2"]["Mon"][2].teacher = "kim"

\* C2: for every class and subject, the slots of the subject in the class's
\* week are no more than the weekly hours required of it.
C2_WithinWeeklyHours ==
    \A tt \in Timetables :
        \A c \in DOMAIN tt : \A subject \in AllSubjects(school_data) :
            Placed(tt, c, subject) <= Required(c, subject)

\* a returned week that holds all three hours its two subjects require
C2_Witness ==
    /\ Returned
    /\ "1" \in DOMAIN best_timetables
    /\ Required("1", "math") = 2
    /\ Placed(best_timetables, "1", "math") = 2
    /\ Required("1", "art") = 1
    /\ Placed(best_timetables, "1", "art") = 1

\* no teacher of the class's rows is named by a row of another class
NoContention(class_num) ==
    \A other \in Range(ClassOrder) \ {class_num} :
        \A i \in 1..Len(RowsFor(class_num)), j \in 1..Len(RowsFor(other)) :
            RowsFor(class_num)[i].teacher = RowsFor(other)[j].teacher
                => RowsFor(class_num)[i].teacher = NoTeacher

EmptyCells(tt, class_num) ==
    Cardinality({dp \in UNION {{<<d, p>> : p \in CellsOf(d)} : d \in Range(days)} :
                    tt[class_num][dp[1]][dp[2]] = None})

\* C3 as stated: a class whose required hours fit the week and whose
\* teachers no other class needs gets exactly the weekly hours of every
\* subject (and no empty cell when the hours fill the week).
C3_Original ==
    Returned =>
        \A c \in DOMAIN best_timetables :
            (TotalRequired(c) <= NumCells /\ NoContention(c)) =>
                /\ \A subject \in AllSubjects(school_data) :
                      Placed(best_timetables, c, subject) = Required(c, subject)
                /\ TotalRequired(c) = NumCells => EmptyCells(best_timetables, c) = 0

\* C4: the returned timetable is that of a trial of least cost among all
\* trials run, and of the earliest such trial.
C4_BestIsMinimal ==
    (pc \in {"loop", "done"} /\ Len(history) >= 1) =>
        \E i \in 1..Len(history) :
            /\ best_timetables = history[i].timetables
            /\ best_total_move = history[i].total_move
            /\ \A j \in 1..Len(history) : history[i].total_move <= history[j].total_move
            /\ \A j \in 1..(i - 1) : history[j].total_move > history[i].total_move

\* the second trial was cheaper than the first and was returned
C4_Witness ==
    /\ pc = "done"
    /\ Len(history) = 2
    /\ history[2].total_move < history[1].total_move
    /\ best_timetables = history[2].timetables
    /\ best_timetables # history[1].timetables

\* two trials of equal cost and different timetables: the first was kept
C4_TieWitness ==
    /\ pc = "done"
    /\ Len(history) = 2
    /\ history[2].total_move = history[1].total_move
    /\ history[2].timetables # history[1].timetables
    /\ best_timetables = history[1].timetables

\* generate was given nothing to schedule or no trial to run
InvalidInput == class_list = <<>> \/ trials = 0

\* C14 as stated: called with an empty class list or with zero trials,
\* generate fails before any search work: it starts no trial and returns
\* neither a timetable nor None.
C14_Original ==
    InvalidInput => (pc \in {"loop", "raised"} /\ trial = 0 /\ timetables = <<>>)

\* two rows of the class name the subject
NamedTwice(class_num, subject) ==
    \E i \in 1..Len(RowsFor(class_num)), j \in 1..Len(RowsFor(class_num)) :
        /\ i # j
        /\ RowsFor(class_num)[i].subject = subject
        /\ RowsFor(class_num)[j].subject = subject

\* C15 as stated: when two rows of a class name the same subject, with
\* cells to spare and no teacher another class needs, the week of the class
\* holds the weekly hours of both rows.
C15_Original ==
    Returned =>
        \A c \in DOMAIN best_timetables : \A subject \in AllSubjects(school_data) :
            (NamedTwice(c, subject) /\ TotalRequired(c) <= NumCells /\ NoContention(c)) =>
                Placed(best_timetables, c, subject) = Required(c, subject)

RECURSIVE SumFun(_, _)
SumFun(f, S) ==
    IF S = {} THEN 0
    ELSE LET x == CHOOSE y \in S : TRUE IN f[x] + SumFun(f, S \ {x})

\* the slots left in the pool of the class
PoolSize(class_num) == SumFun(class_subject_slots[class_num], AllSlots(school_data))

\* the slots the trial's setup put into the pool of the class
PoolAtStart(class_num) == SumFun(subject_slots(school_data, class_num), AllSlots(school_data))

FilledCells(tt, class_num) == NumCells - EmptyCells(tt, class_num)

\* C16: for a class whose rows require more hours than the week has cells,
\* every trial runs to its end: no removal misses its slot, the cells take
\* one slot each, and the slots that did not fit stay in the pool.
C16_Overfull ==
    \A c \in DOMAIN timetables :
        TotalRequired(c) > NumCells =>
            /\ \A slot \in AllSlots(school_data) : class_subject_slots[c][slot] >= 0
            /\ FilledCells(timetables, c) <= NumCells
            /\ PoolSize(c) + FilledCells(timetables, c) = PoolAtStart(c)
            /\ PoolSize(c) > 0
            /\ pc = "done" => (trial = trials /\ best_timetables # None)

\* two trials over a row of 31 hours: the week is full and one slot is left
C16_Witness ==
    /\ pc = "done"
    /\ trials = 2
    /\ "1" \in DOMAIN timetables
    /\ TotalRequired("1") = NumCells + 1
    /\ EmptyCells(best_timetables, "1") = 0
    /\ PoolSize("1") = 1

\* the trial's setup is done and no cell is filled yet
TrialSetUp == pc = "fill" /\ cell = <<1, 1, 1>>

\* the hours of the rows for the class that make the slot
RequiredSlots(class_num, slot) ==
    LET mine == RowsFor(class_num)
    IN SumSeq([i \in 1..Len(mine) |-> IF SlotOf(mine[i]) = slot THEN mine[i].hours ELSE 0])

\* C17 as stated: in every trial, each class identifier get_classes returns
\* is given the slots of every row whose class list names it.
C17_Original ==
    TrialSetUp =>
        \A k \in 1..Len(class_list) : \A slot \in AllSlots(school_data) :
            class_subject_slots[class_list[k]][slot] = RequiredSlots(class_list[k], slot)

\* C18 as stated: the graph the Scheduler evaluates the cost on has the
\* edges and weights of the graph create_graph builds from the same
\* locations, and a trial's cost is its cost on that graph.
C18_Original ==
    /\ graph.weight = create_graph(locations).weight
    /\ pc = "best" => total_move = calc_move(create_graph(locations), timetables)

\* the rooms of the class's week in day and period order, empty cells and
\* cells without a room left out
RoomsOf(tt, class_num) ==
    LET held == SelectSeq(WeekCells(tt[class_num]),
                          LAMBDA x : x # None /\ x.room # NoRoom)
    IN [i \in 1..Len(held) |-> held[i].room]

\* what moving from one room to the next is charged: the least weight of a
\* path, and nothing when either room is not in the graph
Leg(a, b) ==
    IF a \in Nodes(graph) /\ b \in Nodes(graph) /\ SimplePaths(graph, a, b) # {}
    THEN MinCost(graph, a, b)
    ELSE 0

LegsCost(rooms) == SumSeq([i \in 1..(Len(rooms) - 1) |-> Leg(rooms[i], rooms[i + 1])])

\* a move of the week to or from a room that is not a node of the graph
FailingLeg(rooms) ==
    \E i \in 1..(Len(rooms) - 1) : rooms[i] \notin Nodes(graph) \/ rooms[i + 1] \notin Nodes(graph)

\* C20: a trial's cost is the sum, over each class's consecutive rooms, of
\* the shortest-path weight from one to the next, where a move whose query
\* fails counts zero and the move after it starts from the room it led to;
\* the trial goes on to the comparison with the best.
C20_FailedLegIsFree ==
    pc = "best" =>
        total_move = SumSeq([k \in 1..Len(class_list) |->
                                LegsCost(RoomsOf(timetables, class_list[k]))])

\* r1, then the unknown room, then r2: both moves fail and cost nothing,
\* where the move from r1 to r2 would cost 8
C20_Witness ==
    /\ pc = "best"
    /\ class_list = <<"1">>
    /\ RoomsOf(timetables, "1") = <<"r1", "r9", "r2">>
    /\ FailingLeg(RoomsOf(timetables, "1"))
    /\ Leg("r1", "r2") = 8
    /\ total_move = 0

Held(x) == x # None /\ x.room # NoRoom

\* what the i-th cell of a week is charged: the way from the room of the
\* nearest earlier cell that holds a lesson, in whichever day that cell is
Charge(cells, i) ==
    LET before == {j \in 1..(i - 1) : Held(cells[j])}
    IN IF Held(cells[i]) /\ before # {}
       THEN Leg(cells[Max(before)].room, cells[i].room)
       ELSE 0

\* C21: a trial's cost is, over all classes, the sum of the shortest-path
\* costs between consecutive non-empty cells of the week in day and period
\* order: empty cells are skipped, the last lesson of a day is the previous
\* room of the first lesson of the next, the week's first lesson is free.
C21_TotalMove ==
    pc = "best" =>
        total_move =
            SumSeq([k \in 1..Len(class_list) |->
                LET cells == WeekCells(timetables[class_list[k]])
                IN SumSeq([i \in 1..Len(cells) |-> Charge(cells, i)])])

\* seven lessons in r1 fill the first day, the lesson in r2 opens the
\* second: the move between the days is charged
C21_Witness ==
    /\ pc = "best"
    /\ class_list = <<"1">>
    /\ \A p \in 1..7 : /\ timetables["1"]["Mon"][p] # None
                       /\ timetables["1"]["Mon"][p].room = "r1"
    /\ timetables["1"]["Tue"][1] # None
    /\ timetables["1"]["Tue"][1].room = "r2"
    /\ timetables["1"]["Tue"][2] = None
    /\ total_move = 8

\* the teacher stands in the cell of another class at this day and period
Busy(teacher, d, p, class_num) ==
    \E other \in DOMAIN timetables \ {class_num} :
        /\ timetables[other][d][p] # None
        /\ timetables[other][d][p].teacher = teacher

\* C22 as stated: when the fill loop comes to a class whose pool holds a
\* slot with a teacher no other class has in this cell, it fills the cell.
C22_Original ==
    pc = "fill" =>
        LET c == class_list[cell[3]]
        IN (\E slot \in AllSlots(school_data) :
               /\ class_subject_slots[c][slot] > 0
               /\ ~Busy(slot.teacher, days[cell[1]], cell[2], c))
           => available_slots(c) # {}

\* the teachers named in the current cell by the classes before the k-th
TeachersBefore(k) ==
    {timetables[class_list[i]][days[cell[1]]][cell[2]].teacher :
        i \in {j \in 1..(k - 1) : timetables[class_list[j]][days[cell[1]]][cell[2]] # None}}
    \ {NoTeacher}

\* the week's first n cells hold lessons and the others are empty
FillsEarliest(week, n) ==
    \A i \in 1..Len(WeekCells(week)) : (WeekCells(week)[i] # None) <=> (i <= n)

\* C27 as stated: in every cell the classes are served in sorted order, so
\* the teachers that block a class are those the classes before it took in
\* this cell; the first class is never blocked, and when its hours fit the
\* week all its slots stand in its earliest cells.
C27_Original ==
    /\ pc = "fill" =>
          /\ used_teachers = TeachersBefore(cell[3])
          /\ \A i \in cell[3]..Len(class_list) :
                timetables[class_list[i]][days[cell[1]]][cell[2]] = None
          /\ cell[3] = 1 => used_teachers = {}
    /\ (pc \in {"cost", "best"} /\ class_list # <<>>) =>
          (TotalRequired(class_list[1]) <= NumCells =>
              FillsEarliest(timetables[class_list[1]], TotalRequired(class_list[1])))

----------------------------------------------------------------------------
(* Properties of repeated calls (AgainSpec) *)

\* the class and the slots the fill loop is choosing from
AtChoice == pc = "fill" /\ available_slots(class_list[cell[3]]) # {}

\* C13: a call that repeats an earlier call's inputs and draws the same
\* random choices finds each of them on offer again, uses them all up, and
\* returns the timetable the earlier call returned.
C13_SameChoicesSameResult ==
    replay.on =>
        /\ AtChoice => (/\ replay.rest # <<>>
                        /\ Head(replay.rest) \in available_slots(class_list[cell[3]]))
        /\ pc = "done" => (replay.rest = <<>> /\ best_timetables = earlier.result)

\* a repeated call of two trials, the second of them the cheaper, has
\* returned the earlier call's timetable
C13_Witness ==
    /\ replay.on
    /\ pc = "done"
    /\ Len(history) = 2
    /\ history[2].total_move < history[1].total_move
    /\ Len(choices) >= 4
    /\ best_timetables # None
    /\ best_timetables = earlier.result

\* a step of the fill loop that writes into the trial's dict
WritesCell == pc = "fill" /\ timetables' # timetables

C19_Step ==
    /\ school_data' = school_data
    /\ locations' = locations
    /\ graph' = graph
    /\ (WritesCell /\ best_timetables # None) => best_built # built
    /\ best_timetables' # best_timetables => pc \in {"best", "done"}
    /\ built' # built => (built' > built /\ built' > best_built /\ built' > earlier.built)
    /\ (pc' = "done" /\ earlier'.called /\ best_timetables' # None) =>
          best_built' > earlier'.built

\* C19: no step of generate changes the rows, the locations or the graph;
\* the dict a trial fills is never the one retained as best, which changes
\* only when a trial replaces it; every trial builds a dict that did not
\* exist, so a call returns one that no earlier call returned.
C19_InputsAndBestKept == [][C19_Step]_vars

\* a second call has returned its first trial's timetable, kept as best
\* while the second trial filled its own; the first call returned another dict
C19_Witness ==
    /\ pc = "done"
    /\ earlier.called
    /\ earlier.result # None
    /\ Len(history) = 2
    /\ best_timetables = history[1].timetables
    /\ best_timetables # history[2].timetables
    /\ best_built = built - 1
    /\ earlier.built < best_built

----------------------------------------------------------------------------
(* Properties of calc_total_move (MoveSpec) *)

\* the teacher of the day's first period has a home room
HomeKnown(d) ==
    LET t == teacher_assignments[1][d].teacher
    IN t \in DOMAIN teacher_home_rooms /\ Truthy(teacher_home_rooms[t])

\* the way from the home room to the day's first room, then from each
\* room of the day to the next
DayCost(d) ==
    (IF HomeKnown(d)
     THEN Leg(teacher_home_rooms[teacher_assignments[1][d].teacher], room_assignments[1][d])
     ELSE 0)
    + SumSeq([p \in 1..(Len(room_assignments) - 1) |->
                Leg(room_assignments[p][d], room_assignments[p + 1][d])])

\* C24: calc_total_move starts every day without a previous room, takes the
\* home room of the first period's teacher as the previous room when it is
\* known, and so returns the sum over the days of the way from that home
\* room to the first room plus the moves within the day.
C24_HomeRoomStartsDay ==
    Asked("Scheduler.calc_total_move") =>
        outcome = Return(SumSeq([d \in GridDays |-> DayCost(d)]))

\* the first day ends in r1 and the second starts in r2 with a teacher
\* whose home room is r3: the second day is charged from r3, not from r1
C24_Witness ==
    /\ Asked("Scheduler.calc_total_move")
    /\ outcome.kind = "return"
    /\ ~HomeKnown(1)
    /\ HomeKnown(2)
    /\ \A p \in 1..Len(room_assignments) : room_assignments[p][1] = "r1"
    /\ \A p \in 1..Len(room_assignments) : room_assignments[p][2] = "r2"
    /\ Leg("r1", "r2") = 8
    /\ Leg("r3", "r2") = 10
    /\ outcome.value = 10

----------------------------------------------------------------------------
(* Properties of DeliveryOptimizationSystem (SystemSpec) *)

\* a paused system runs, and the timer is active exactly when the system
\* runs unpaused
FlagsAgree ==
    /\ is_paused => is_running
    /\ timer_active <=> (is_running /\ ~is_paused)

StartedAgain ==
    /\ is_running
    /\ calls' = Append(calls, "start_system")

\* C28: before and after every call of start_system, stop_system and
\* toggle_pause (and every timeout of the timer), is_paused implies
\* is_running and the timer is active exactly when is_running holds and
\* is_paused does not; a call of start_system on a running system, paused
\* or not, changes none of the flags, the timer or the cycle count.
C28_Step ==
    /\ FlagsAgree
    /\ FlagsAgree'
    /\ StartedAgain => UNCHANGED <<is_running, is_paused, timer_active, current_cycle>>

C28_FlagsAndTimer == [][C28_Step]_vars

\* start_system has just been called on a paused system, which is still
\* paused with its timer stopped, after a cycle has completed
C28_Witness ==
    /\ Len(calls) = MaxCalls
    /\ calls[Len(calls)] = "start_system"
    /\ calls[Len(calls) - 1] = "toggle_pause"
    /\ is_running
    /\ is_paused
    /\ ~timer_active
    /\ current_cycle = 1

----------------------------------------------------------------------------
(* Properties of DataManager (DataSpec) *)

\* every path with a recorded modification time has a cached value
RecordedIsCached == DOMAIN last_modified \subseteq DOMAIN cache

\* a cache hit returned a value, the one last stored for the path
HitReturnsStored ==
    result.hit =>
        /\ result.value # None
        /\ result.value = last_stored[result.path]

\* the last call was a load_data that found the file's modification time
\* different from the recorded one
FoundChanged == result.call = "load_data" /\ result.changed

\* C29 as stated: recorded paths are cached, a cache hit returns the value
\* last stored and never None, and a load_data that finds a changed
\* modification time always reads the file again.
C29_Original ==
    /\ RecordedIsCached
    /\ HitReturnsStored
    /\ FoundChanged => result.read

\* C29: after any sequence of load_data, save_data and clear_cache, failed
\* calls included, every path with a recorded modification time has a
\* cached value, so a cache hit of load_data returns the value stored by
\* the last load or save of the path and never None; a load_data that finds
\* a changed modification time never answers from the cache: it reads the
\* file again when the file type given or detected is a supported one, and
\* returns None without reading otherwise.
C29_CacheHit ==
    /\ RecordedIsCached
    /\ HitReturnsStored
    /\ FoundChanged =>
          /\ ~result.hit
          /\ IF result.type \in SupportedTypes
             THEN result.read
             ELSE ~result.read /\ result.value = None

\* a.csv was loaded and later saved; the load that follows is a cache hit
\* and returns the frame as it was given to save_data, not preprocessed
C29_Witness ==
    /\ result.call = "load_data"
    /\ result.hit
    /\ result.path = FilePath("a.csv")
    /\ result.value = DataFrame("t2", FALSE)
    /\ files[result.path].content = "t2"
    /\ last_modified[result.path] = files[result.path].mtime

----------------------------------------------------------------------------
(* Properties of the timetables: where the placed slots come from (Spec) *)

\* the (subject, teacher, room) triples of the rows that apply to the class
TriplesFor(class_num) ==
    LET mine == RowsFor(class_num)
    IN {[subject |-> mine[i].subject, teacher |-> mine[i].teacher, room |-> mine[i].room] :
           i \in 1..Len(mine)}

\* every slot of the timetables tt belongs to a row of its class
FromRows(tt) ==
    \A c \in DOMAIN tt : \A d \in Range(days) : \A p \in CellsOf(d) :
        tt[c][d][p] # None => tt[c][d][p] \in TriplesFor(c)

\* C30: every slot in a timetable of generate, the trial's and the best
\* one, is the (subject, teacher, room) triple of an input row that names
\* the class; and after every cell of a trial, for every class, the slots
\* placed plus the slots left in its pool are the slots its pool started
\* the trial with.
C30_PlacedFromRows ==
    /\ FromRows(timetables)
    /\ best_timetables # None => FromRows(best_timetables)
    /\ \A c \in DOMAIN timetables :
          PoolSize(c) + FilledCells(timetables, c) = PoolAtStart(c)

\* the second class got its art lesson first and one of its two math
\* lessons later: two slots placed, one left, in the middle of a trial
C30_Witness ==
    /\ school_data = SharedTeacherRows
    /\ pc = "fill"
    /\ timetables["2"]["Mon"][1] = [subject |-> "art", teacher |-> "lee", room |-> "r2"]
    /\ timetables["2"]["Mon"][3] = [subject |-> "math", teacher |-> "kim", room |-> "r1"]
    /\ FilledCells(timetables, "2") = 2
    /\ PoolSize("2") = 1
    /\ PoolAtStart("2") = 3

=============================================================================
